---- MODULE Spec2Model ----
(***************************************************************************)
(* Model of the worksheet generator (src/main.py): the response normalizer *)
(* clean_json_content, the retry orchestrator response(), the worksheet    *)
(* store and the handlers create_worksheet, edit_worksheet and             *)
(* save_worksheet_changes.                                                 *)
(*                                                                         *)
(* A Python str is a sequence of one-character strings.  A parsed JSON     *)
(* value is a record [t, s, a, keys]: t is the kind, s the characters of a *)
(* string / number / literal, a the elements of an array or the values of  *)
(* an object, keys the keys of an object (in source order).                *)
(***************************************************************************)
EXTENDS Integers, Sequences, FiniteSets, TLC

(***************************************************************************)
(* Characters and elementary str operations                                *)
(***************************************************************************)

\* the characters Python's \s and str.strip() treat as whitespace
PySpace == {" ", "\n", "\t", "\r", "\f"}

\* the characters json.loads skips between tokens
JsonSpace == {" ", "\n", "\t", "\r"}

\* raw characters json.loads (strict) refuses inside a string literal
\* the backspace character U+0008, which has no TLA+ string escape
Backspace == "<BS>"

\* the backquote character of a Markdown fence, which a TLA+ string cannot hold
Backquote == "<BQ>"

ControlChars == {"\n", "\t", "\r", "\f", Backspace}

Digits == {"0", "1", "2", "3", "4", "5", "6", "7", "8", "9"}

HexDigits == Digits \cup {"a", "b", "c", "d", "e", "f", "A", "B", "C", "D", "E", "F"}

\* s[i..] starts with the characters lit
StartsWith(s, i, lit) ==
    /\ i >= 1
    /\ i + Len(lit) - 1 <= Len(s)
    /\ SubSeq(s, i, i + Len(lit) - 1) = lit

\* the smallest element of a non-empty set of integers
Least(S) == CHOOSE k \in S : \A j \in S : k <= j

\* the largest element of a non-empty set of integers
Greatest(S) == CHOOSE k \in S : \A j \in S : j <= k

\* smallest index >= i whose character is in cs, Len(s)+1 when there is none
FindFrom(s, i, cs) ==
    LET hits == {k \in i..Len(s) : s[k] \in cs}
    IN  IF hits = {} THEN Len(s) + 1 ELSE Least(hits)

\* largest index <= i whose character is in cs, 0 when there is none
FindBack(s, i, cs) ==
    LET hits == {k \in 1..i : s[k] \in cs}
    IN  IF hits = {} THEN 0 ELSE Greatest(hits)

\* smallest index >= i whose character is NOT in cs, Len(s)+1 when there is none
SkipFrom(s, i, cs) ==
    IF i > Len(s) THEN Len(s) + 1
    ELSE CHOOSE k \in i..(Len(s) + 1) :
            /\ k = Len(s) + 1 \/ s[k] \notin cs
            /\ \A j \in i..(k - 1) : s[j] \in cs

\* the number of consecutive characters of cs that end at s[i]
RunBefore(s, i, cs) ==
    CHOOSE d \in 0..i :
        /\ d = i \/ s[i - d] \notin cs
        /\ \A j \in (i - d + 1)..i : s[j] \in cs

\* s[i], or the empty string past either end of s
At(s, i) == IF i \in 1..Len(s) THEN s[i] ELSE ""

\* the indices lo..hi in increasing order
Interval(lo, hi) == [k \in 1..(IF hi < lo THEN 0 ELSE hi - lo + 1) |-> lo + k - 1]

ListOf(f) == SubSeq(f, 1, Len(f))

\* str.strip(): drop leading and trailing whitespace
Strip(s) ==
    IF SkipFrom(s, 1, PySpace) > Len(s) THEN <<>>
    ELSE SubSeq(s, SkipFrom(s, 1, PySpace), Len(s) - RunBefore(s, Len(s), PySpace))

(***************************************************************************)
(* json.loads (the Python standard library, as far as the characters above *)
(* reach).  The text is cut into tokens, then the tokens are read as one   *)
(* value; any lexical or syntax error anywhere makes json.loads raise.     *)
(***************************************************************************)

StrVal(cs) == [t |-> "str", s |-> cs, a |-> <<>>, keys |-> <<>>]

NumVal(cs) == [t |-> "num", s |-> cs, a |-> <<>>, keys |-> <<>>]

LitVal(cs) == [t |-> "lit", s |-> cs, a |-> <<>>, keys |-> <<>>]

ArrVal(vs) == [t |-> "arr", s |-> <<>>, a |-> vs, keys |-> <<>>]

ObjVal(ks, vs) == [t |-> "obj", s |-> <<>>, a |-> vs, keys |-> ks]

NoValue == [t |-> "none", s |-> <<>>, a |-> <<>>, keys |-> <<>>]

\* the outcome of a parse: ~ok stands for json.JSONDecodeError
ParseFail == [ok |-> FALSE, v |-> NoValue]

ParseOk(val) == [ok |-> TRUE, v |-> val]

Structural == {"{", "}", "[", "]", ",", ":"}

\* the character a backslash escape stands for
Unescape(c) ==
    CASE c = "n" -> "\n"
      [] c = "t" -> "\t"
      [] c = "r" -> "\r"
      [] c = "f" -> "\f"
      [] c = "b" -> Backspace
      [] OTHER -> c

\* the character \uXXXX stands for: the whitespace code points, else a
\* printable character
UnescapeU(h) ==
    CASE h = <<"0", "0", "2", "0">> -> " "
      [] h \in {<<"0", "0", "0", "a">>, <<"0", "0", "0", "A">>} -> "\n"
      [] h = <<"0", "0", "0", "9">> -> "\t"
      [] OTHER -> "?"

\* the number of consecutive backslashes right before s[k]
BackslashRun(s, k) == RunBefore(s, k - 1, {"\\"})

\* the quotes that open or close a string: those not escaped by a backslash
RealQuotes(s) == {k \in 1..Len(s) : s[k] = "\"" /\ BackslashRun(s, k) % 2 = 0}

\* py_scanstring on the body s[lo..hi] of a string literal (the characters
\* between its quotes): the decoded characters
EscapeStart(s, p) == s[p] = "\\" /\ BackslashRun(s, p) % 2 = 0

UnicodeEscape(s, p) == p >= 2 /\ s[p] = "u" /\ EscapeStart(s, p - 1)

HexOfEscape(s, p) == \E d \in 1..4 : p - d >= 2 /\ UnicodeEscape(s, p - d)

StringBodyOk(s, lo, hi) ==
    \A p \in lo..hi :
       IF EscapeStart(s, p)
       THEN \/ s[p + 1] \in {"\"", "\\", "/", "b", "f", "n", "r", "t"}
            \/ /\ s[p + 1] = "u"
               /\ p + 5 <= hi
               /\ \A k \in (p + 2)..(p + 5) : s[k] \in HexDigits
       ELSE (p >= 2 /\ EscapeStart(s, p - 1)) \/ s[p] \notin ControlChars

DecodeString(s, lo, hi) ==
    LET kept == SelectSeq(Interval(lo, hi),
                          LAMBDA p : ~EscapeStart(s, p) /\ ~HexOfEscape(s, p))
    IN  ListOf([n \in 1..Len(kept) |->
            LET p == kept[n] IN
            IF UnicodeEscape(s, p) THEN UnescapeU(SubSeq(s, p + 1, p + 4))
            ELSE IF p >= 2 /\ EscapeStart(s, p - 1) THEN Unescape(s[p])
            ELSE s[p]])

\* NUMBER_RE.match: the index after the number starting at i, 0 when none
NumberEnd(s, i) ==
    LET exponent(j2, k) ==
            IF At(s, j2) \in {"e", "E"} /\ At(s, k) \in Digits
            THEN SkipFrom(s, k, Digits) ELSE j2
        fraction(j2) ==
            exponent(j2, IF At(s, j2 + 1) \in {"+", "-"} THEN j2 + 2 ELSE j2 + 1)
        integer(j1) ==
            fraction(IF At(s, j1) = "." /\ At(s, j1 + 1) \in Digits
                     THEN SkipFrom(s, j1 + 1, Digits) ELSE j1)
        sign(j0) ==
            IF At(s, j0) \in Digits
            THEN integer(IF At(s, j0) = "0" THEN j0 + 1 ELSE SkipFrom(s, j0, Digits))
            ELSE 0
    IN  sign(IF At(s, i) = "-" THEN i + 1 ELSE i)

JsonLiterals ==
    { <<"n", "u", "l", "l">>, <<"t", "r", "u", "e">>, <<"f", "a", "l", "s", "e">>,
      <<"N", "a", "N">>, <<"I", "n", "f", "i", "n", "i", "t", "y">>,
      <<"-", "I", "n", "f", "i", "n", "i", "t", "y">> }

\* the tokens of s, in order.  Real quotes alternate between opening and
\* closing a string; a run of other characters outside the strings is one
\* number or literal, or a lexical error ("bad")
Tokens(s) ==
    LET \* s[k] lies inside a string literal or is its closing quote
        inString(quotes) ==
            ListOf([k \in 1..Len(s) |-> Cardinality({q \in quotes : q < k}) % 2 = 1])
        scan(quotes, inside) ==
            LET \* s[k] belongs to a number or literal
                atom(k) == /\ k \in 1..Len(s)
                           /\ ~inside[k]
                           /\ k \notin quotes
                           /\ s[k] \notin JsonSpace \cup Structural
                start(k) == /\ ~inside[k]
                            /\ \/ s[k] \in Structural
                               \/ k \in quotes
                               \/ atom(k) /\ ~atom(k - 1)
                body(lo, hi) ==
                    IF StringBodyOk(s, lo, hi)
                    THEN [kind |-> "str", text |-> DecodeString(s, lo, hi)]
                    ELSE [kind |-> "bad", text |-> <<>>]
                closed(k, closes) ==
                    IF closes = {} THEN [kind |-> "bad", text |-> <<>>]
                    ELSE body(k + 1, Least(closes) - 1)
                string(k) == closed(k, {c \in quotes : c > k})
                classify(run) ==
                    IF NumberEnd(run, 1) = Len(run) + 1 THEN [kind |-> "num", text |-> run]
                    ELSE IF run \in JsonLiterals THEN [kind |-> "lit", text |-> run]
                    ELSE [kind |-> "bad", text |-> run]
                word(k) ==
                    classify(SubSeq(s, k, Least({e \in k..Len(s) : ~atom(e + 1)})))
                token(k) == IF ~start(k) THEN [kind |-> "", text |-> <<>>]
                            ELSE IF k \in quotes THEN string(k)
                            ELSE IF s[k] \in Structural THEN [kind |-> s[k], text |-> <<>>]
                            ELSE word(k)
            IN  SelectSeq([k \in 1..Len(s) |-> token(k)], LAMBDA tok : tok.kind # "")
        quoted(quotes) == scan(quotes, inString(quotes))
    IN  quoted(RealQuotes(s))

\* the nesting depth after token k, counted from token a
Depth(T, a, k) ==
    Cardinality({j \in a..k : T[j].kind \in {"{", "["}})
      - Cardinality({j \in a..k : T[j].kind \in {"}", "]"}})

\* scanner.scan_once on the tokens a..b, which must be exactly one value
RECURSIVE ParseSpan(_, _, _)
ParseSpan(T, a, b) ==
    IF a > b THEN ParseFail
    ELSE IF a = b THEN
        CASE T[a].kind = "str" -> ParseOk(StrVal(T[a].text))
          [] T[a].kind = "num" -> ParseOk(NumVal(T[a].text))
          [] T[a].kind = "lit" -> ParseOk(LitVal(T[a].text))
          [] OTHER -> ParseFail
    ELSE IF ~(\/ T[a].kind = "[" /\ T[b].kind = "]"
              \/ T[a].kind = "{" /\ T[b].kind = "}") THEN ParseFail
    ELSE IF Least({j \in a..b : Depth(T, a, j) = 0} \cup {b + 1}) # b THEN ParseFail
    ELSE IF b = a + 1 THEN
        (IF T[a].kind = "[" THEN ParseOk(ArrVal(<<>>)) ELSE ParseOk(ObjVal(<<>>, <<>>)))
    ELSE
        LET commas == SelectSeq(Interval(a + 1, b - 1),
                                LAMBDA k : T[k].kind = "," /\ Depth(T, a, k) = 1)
            n      == Len(commas) + 1
            lo(k)  == IF k = 1 THEN a + 1 ELSE commas[k - 1] + 1
            hi(k)  == IF k = n THEN b - 1 ELSE commas[k] - 1
        IN  IF T[a].kind = "[" THEN
                LET parts == ListOf([k \in 1..n |-> ParseSpan(T, lo(k), hi(k))]) IN
                IF \A k \in 1..n : parts[k].ok
                THEN ParseOk(ArrVal(ListOf([k \in 1..n |-> parts[k].v])))
                ELSE ParseFail
            ELSE
                LET wellFormed(k) == /\ lo(k) + 2 <= hi(k)
                                     /\ T[lo(k)].kind = "str"
                                     /\ T[lo(k) + 1].kind = ":"
                    parts == ListOf([k \in 1..n |->
                                 IF wellFormed(k) THEN ParseSpan(T, lo(k) + 2, hi(k))
                                 ELSE ParseFail])
                IN  IF \A k \in 1..n : parts[k].ok
                    THEN ParseOk(ObjVal(ListOf([k \in 1..n |-> T[lo(k)].text]),
                                        ListOf([k \in 1..n |-> parts[k].v])))
                    ELSE ParseFail

\* json.loads(doc): one value with only whitespace around it
JsonLoads(doc) ==
    LET scan_once(T) ==
            IF \E k \in 1..Len(T) : T[k].kind = "bad" THEN ParseFail
            ELSE ParseSpan(T, 1, Len(T))
    IN  scan_once(Tokens(doc))

\* key in parsed (a dict)
HasKey(val, key) == \E k \in 1..Len(val.keys) : val.keys[k] = key

\* parsed[key]: a repeated key keeps its last value
Lookup(val, key) == val.a[Greatest({k \in 1..Len(val.keys) : val.keys[k] = key})]

(***************************************************************************)
(* clean_json_content: the response normalizer                             *)
(***************************************************************************)

WorksheetKey == <<"w", "o", "r", "k", "s", "h", "e", "e", "t">>

\* the literal "worksheet" of the first strategy's pattern, quotes included
QuotedKey == <<"\"">> \o WorksheetKey \o <<"\"">>

\* the number of elements a worksheet must have
WorksheetLen == 9

\* what a strategy yields: found is the truth value of `match`
NoMatch == [found |-> FALSE, text |-> <<>>]

Matched(cs) == [found |-> TRUE, text |-> cs]

\* the tail \s*:\s*\[[^\]]+\][^}]*\} of the first pattern, matched from p:
\* the index of the closing brace, 0 when the tail does not match
KeyTailEnd(x, p) ==
    LET c == SkipFrom(x, p, PySpace)
        b == SkipFrom(x, c + 1, PySpace)
        r == FindFrom(x, b + 1, {"]"})
        e == FindFrom(x, r + 1, {"}"})
    IN  IF At(x, c) = ":" /\ At(x, b) = "[" /\ r <= Len(x) /\ r >= b + 2 /\ e <= Len(x)
        THEN e ELSE 0

\* the places where "worksheet" can match when the pattern starts at the
\* brace x[i]: [^}]* cannot cross a closing brace
KeyPlaces(x, i) ==
    {k \in (i + 1)..(FindFrom(x, i + 1, {"}"}) - 1) :
        StartsWith(x, k, QuotedKey) /\ KeyTailEnd(x, k + Len(QuotedKey)) > 0}

\* Strategy 1: re.search(r'\{[^}]*"worksheet"\s*:\s*\[[^\]]+\][^}]*\}', x):
\* the leftmost brace from which the pattern matches; the greedy [^}]* takes
\* the last "worksheet" it can
Strategy1(x) ==
    LET starts == {i \in 1..Len(x) : x[i] = "{" /\ KeyPlaces(x, i) # {}} IN
    IF starts = {} THEN NoMatch
    ELSE LET i == CHOOSE a \in starts : \A b \in starts : a <= b
             k == CHOOSE a \in KeyPlaces(x, i) : \A b \in KeyPlaces(x, i) : b <= a
         IN  Matched(SubSeq(x, i, KeyTailEnd(x, k + Len(QuotedKey))))

\* Strategy 2: re.search(r'\{.*\}', x, re.DOTALL): first { to last }
Strategy2(x) ==
    LET i == FindFrom(x, 1, {"{"})
        j == FindBack(x, Len(x), {"}"})
    IN  IF i <= Len(x) /\ j > i THEN Matched(SubSeq(x, i, j)) ELSE NoMatch

\* x[a:b] for Python indices a and b (0-based, negative counts from the end)
PySlice(x, a, b) ==
    LET Clamp(n) == IF n < 0 THEN (IF Len(x) + n < 0 THEN 0 ELSE Len(x) + n)
                    ELSE (IF n > Len(x) THEN Len(x) ELSE n)
    IN  SubSeq(x, Clamp(a) + 1, Clamp(b))

\* Strategy 3: x[x.find('{'):x.rfind('}')+1]; find and rfind give -1 when
\* the brace is absent; an empty str is falsy
Strategy3(x) ==
    LET find  == IF FindFrom(x, 1, {"{"}) > Len(x) THEN -1 ELSE FindFrom(x, 1, {"{"}) - 1
        rfind == FindBack(x, Len(x), {"}"}) - 1
        cut   == PySlice(x, find, rfind + 1)
    IN  IF cut = <<>> THEN NoMatch ELSE Matched(cut)

\* re.sub(r',\s*}', '}', s): every comma followed by optional whitespace and
\* a closing brace is dropped together with that whitespace
SubTrailingComma(s) ==
    LET dropped(k) == /\ s[k] \in PySpace \cup {","}
                      /\ At(s, k - RunBefore(s, k, PySpace)) = ","
                      /\ At(s, SkipFrom(s, k + 1, PySpace)) = "}"
        kept == SelectSeq(Interval(1, Len(s)), LAMBDA k : ~dropped(k))
    IN  ListOf([n \in 1..Len(kept) |-> s[kept[n]]])

\* re.sub(r'{\s*"', '{"', s): the whitespace between an opening brace and a
\* quote is dropped
SubKeyStart(s) ==
    LET dropped(k) == /\ s[k] \in PySpace
                      /\ At(s, k - RunBefore(s, k, PySpace)) = "{"
                      /\ At(s, SkipFrom(s, k, PySpace)) = "\""
        kept == SelectSeq(Interval(1, Len(s)), LAMBDA k : ~dropped(k))
    IN  ListOf([n \in 1..Len(kept) |-> s[kept[n]]])

\* the "additional cleaning" of a candidate
AdditionalCleaning(cs) == Strip(SubKeyStart(SubTrailingComma(cs)))

\* a structure check that lets blank items pass
ValidWorksheetAnyStr(parsed) ==
    /\ parsed.t = "obj"
    /\ HasKey(parsed, WorksheetKey)
    /\ Lookup(parsed, WorksheetKey).t = "arr"
    /\ Len(Lookup(parsed, WorksheetKey).a) = WorksheetLen
    /\ \A k \in 1..Len(Lookup(parsed, WorksheetKey).a) :
          Lookup(parsed, WorksheetKey).a[k].t = "str"

\* the structure check: a dict with a "worksheet" list of 9 str, none blank
ValidWorksheet(parsed) ==
    /\ parsed.t = "obj"
    /\ HasKey(parsed, WorksheetKey)
    /\ Lookup(parsed, WorksheetKey).t = "arr"
    /\ Len(Lookup(parsed, WorksheetKey).a) = WorksheetLen
    /\ \A k \in 1..Len(Lookup(parsed, WorksheetKey).a) :
          LET item == Lookup(parsed, WorksheetKey).a[k]
          IN  item.t = "str" /\ Strip(item.s) # <<>>

\* the body of the loop for one strategy's match: the cleaned candidate
\* when it parses and validates; a decode error is caught and logged
TryStrategy(match) ==
    LET validated(cleaned, parsed) ==
            IF parsed.ok /\ ValidWorksheet(parsed.v) THEN Matched(cleaned) ELSE NoMatch
        loaded(cleaned) == validated(cleaned, JsonLoads(cleaned))
    IN  IF ~match.found THEN NoMatch
        ELSE loaded(AdditionalCleaning(match.text))

\* no search at all: the whole raw content is the only candidate
StrategiesWholeText(x) == <<Matched(x)>>

\* the strategies list, applied to the raw content
Strategies(x) == <<Strategy1(x), Strategy2(x), Strategy3(x)>>

\* a loop that ends at the first strategy whose candidate fails
ExtractFromAborting(ms, k) ==
    IF k > Len(ms) THEN NoMatch ELSE TryStrategy(ms[k])

\* extract_json_strategies: the first strategy, in order, that yields a
\* valid candidate; None when there is none
RECURSIVE ExtractFrom(_, _)
ExtractFrom(ms, k) ==
    LET tried(result) == IF result.found THEN result ELSE ExtractFrom(ms, k + 1)
    IN  IF k > Len(ms) THEN NoMatch
        ELSE tried(TryStrategy(ms[k]))

extract_json_strategies(x) == ExtractFrom(Strategies(x), 1)

\* a normalizer that returns an empty text where clean_json_content raises
clean_json_content_returning(x) ==
    LET returned(cleaned_json) ==
            [raised |-> FALSE,
             text |-> IF cleaned_json.found THEN cleaned_json.text ELSE <<>>]
    IN  returned(extract_json_strategies(x))

\* clean_json_content(raw_content): the cleaned JSON text, or raised = TRUE
\* for the ValueError of the last line
clean_json_content(x) ==
    LET returned(cleaned_json) ==
            IF cleaned_json.found /\ cleaned_json.text # <<>>
            THEN [raised |-> FALSE, text |-> cleaned_json.text]
            ELSE [raised |-> TRUE, text |-> <<>>]
    IN  returned(extract_json_strategies(x))

\* the list of str held by a validated worksheet value
Items(arr) == ListOf([k \in 1..Len(arr.a) |-> arr.a[k].s])

(***************************************************************************)
(* json.dumps of a str and of a list of str                                *)
(***************************************************************************)

\* the escape json.dumps writes for one character
EscapeChar(c) ==
    CASE c = "\"" -> <<"\\", "\"">>
      [] c = "\\" -> <<"\\", "\\">>
      [] c = "\n" -> <<"\\", "n">>
      [] c = "\t" -> <<"\\", "t">>
      [] c = "\r" -> <<"\\", "r">>
      [] c = "\f" -> <<"\\", "f">>
      [] c = Backspace -> <<"\\", "b">>
      [] OTHER -> <<c>>

\* sep.join(parts)
RECURSIVE Join(_, _)
Join(parts, sep) ==
    IF parts = <<>> THEN <<>>
    ELSE IF Len(parts) = 1 THEN parts[1]
    ELSE parts[1] \o sep \o Join(Tail(parts), sep)

\* json.dumps(cs) for a str cs
JsonString(cs) ==
    <<"\"">> \o Join([k \in 1..Len(cs) |-> EscapeChar(cs[k])], <<>>) \o <<"\"">>

\* json.dumps(ws) for a list of str ws
JsonDumps(ws) ==
    <<"[">> \o Join([k \in 1..Len(ws) |-> JsonString(ws[k])], <<",", " ">>) \o <<"]">>

(***************************************************************************)
(* The replies of the language model (the environment of response()).      *)
(* A reply is described by its shape: the elements of the worksheet array, *)
(* whether a trailing comma follows the last element or the array, and     *)
(* what is wrapped around the object.                                      *)
(***************************************************************************)

\* array elements: a JSON string holding value, or another JSON value
StrItem(cs) == [str |-> TRUE, value |-> cs, text |-> JsonString(cs)]

OtherItem(txt) == [str |-> FALSE, value |-> <<>>, text |-> txt]

\* the worksheet of Scenario A, with short items
BaseWorksheet ==
    << <<"T">>, <<"Q", "1">>, <<"Q", "2">>, <<"Q", "3">>, <<"Q", "4">>, <<"Q", "5">>,
       <<"M", "1">>, <<"M", "2">>, <<"C", "z">> >>

\* items that make a worksheet differ from BaseWorksheet in one place
GoodItems ==
    { StrItem(<<"T", "x">>),
      StrItem(<<"a", ",", "b">>),
      StrItem(<<"a", "}", "b">>),
      StrItem(<<"a", "]", "b">>),
      StrItem(<<"a", "\"", "b">>),
      StrItem(<<" ", "a", " ">>),
      StrItem(<<"a", ",", " ", "}", "b">>),
      StrItem(<<"a", "{", " ">>),
      StrItem(<<"a", "]", "b", "}", "c">>) }

BadItems ==
    { StrItem(<<>>),
      StrItem(<<" ">>),
      StrItem(<<"\n">>),
      OtherItem(<<"1">>),
      OtherItem(<<"n", "u", "l", "l">>),
      OtherItem(<<"[", "\"", "x", "\"", "]">>) }

\* the shapes: BaseWorksheet cut or extended to n items, with item k replaced
Shape(n, k, item, trailing, wrapper) ==
    [ items    |-> [j \in 1..n |->
                      IF j = k THEN item
                      ELSE IF j <= Len(BaseWorksheet) THEN StrItem(BaseWorksheet[j])
                      ELSE StrItem(<<"e", "x">>)],
      trailing |-> trailing,
      wrapper  |-> wrapper ]

\* a reply without any object in it (Scenario D)
ProseShape == [items |-> <<>>, trailing |-> "none", wrapper |-> "no-object"]

Fence == <<Backquote, Backquote, Backquote>>

\* the JSON object of a shape
ObjectText(shape) ==
    <<"{">> \o QuotedKey \o <<":", " ", "[">>
      \o Join([k \in 1..Len(shape.items) |-> shape.items[k].text], <<",", " ">>)
      \o (IF shape.trailing = "array" THEN <<",", " ">> ELSE <<>>)
      \o <<"]">>
      \o (IF shape.trailing = "object" THEN <<",">> ELSE <<>>)
      \o <<"}">>

\* the raw reply of a shape: message.content
ReplyText(shape) ==
    CASE shape.wrapper = "none" -> ObjectText(shape)
      [] shape.wrapper = "fence" ->
            Fence \o <<"j", "s", "o", "n", "\n">> \o ObjectText(shape) \o <<"\n">> \o Fence
      [] shape.wrapper = "prose" ->
            <<"S", "u", "r", "e", "!", " ">> \o ObjectText(shape) \o <<" ", "o", "k">>
      [] shape.wrapper = "boxed" ->
            <<"\\", "b", "o", "x", "e", "d", "{">> \o ObjectText(shape) \o <<"}">>
      [] OTHER -> <<"S", "o", "r", "r", "y", ",", " ", "n", "o", ".">>

\* the list of str a shape's array stands for, when all its items are str
Worksheet(shape) == [k \in 1..Len(shape.items) |-> shape.items[k].value]

\* a str that is not blank: item.strip() is truthy
NonBlank(cs) == Strip(cs) # <<>>

\* the shape holds a worksheet array of 9 non-blank strings
WellShaped(shape) ==
    /\ shape.wrapper # "no-object"
    /\ Len(shape.items) = WorksheetLen
    /\ \A k \in 1..Len(shape.items) :
          shape.items[k].str /\ NonBlank(shape.items[k].value)

(***************************************************************************)
(* State                                                                   *)
(***************************************************************************)

VARIABLES
    max_retries,    \* response(): the parameter
    attempt,        \* response(): the loop variable, 0-based
    pc,             \* response(): "loop", "call", "clean", "done"; "idle" outside it
    raw_content,    \* response(): the local, unbound until first assigned
    caught,         \* response(): the exception of the latest failure
    outcome,        \* response(): "running", "record", "None" or "exception"
    worksheet,      \* response(): the list returned
    calls,          \* the number of client.chat.completions.create calls
    reply,          \* the shape of the latest reply of the model
    status_text,    \* response(): what has been written to status_text
    progress_bar,   \* response(): the values written to progress_bar
    app,            \* the handler that runs, and where it is
    request,        \* create_worksheet: its arguments, and the rows at its call
    created,        \* create_worksheet: what it returned
    db,             \* the rows of the worksheets table, in insertion order
    rendered,       \* the contents handed to word() by the latest handler
    frames,         \* concurrent requests: the locals of response() of each
    inputs          \* concurrent requests: what the model has answered to each

orchestrator == <<max_retries, attempt, pc, raw_content, caught, outcome, worksheet,
                  calls, reply, status_text, progress_bar>>

application == <<app, request, created, db, rendered>>

concurrent == <<frames, inputs>>

vars == <<max_retries, attempt, pc, raw_content, caught, outcome, worksheet, calls,
          reply, status_text, progress_bar, app, request, created, db, rendered,
          frames, inputs>>

\* the bound on max_retries of a direct call of response()
MaxRetries == 3

\* the default of max_retries
DefaultMaxRetries == 3

Unbound == [bound |-> FALSE, text |-> <<>>]

Bound(cs) == [bound |-> TRUE, text |-> cs]

NoError == [type |-> "none", origin |-> "none"]

NoReply == [items |-> <<>>, trailing |-> "none", wrapper |-> "no-reply"]

NoRequest == [subject |-> "", topic |-> "", rows |-> 0]

NotCreated == [status |-> "none", id |-> 0]

NothingRendered == {}

\* the replies the model gives to a call of response()
ModelShapes ==
    { Shape(WorksheetLen, 0, StrItem(<<>>), "none", "none"),
      Shape(WorksheetLen, 1, StrItem(<<"T", "x">>), "none", "fence"),
      Shape(WorksheetLen - 1, 0, StrItem(<<>>), "none", "none"),
      Shape(WorksheetLen, WorksheetLen, StrItem(<<" ">>), "none", "prose"),
      ProseShape }

\* the failures of client.chat.completions.create and of reading its
\* result: a ValueError (json.JSONDecodeError and the response validation
\* errors are ValueErrors) or any other Exception (API, network, timeout)
ModelErrors == {"ValueError", "Exception"}

\* status_text.info(f"Generating worksheet (Attempt {attempt + 1}/{max_retries})...")
GeneratingStatus(k, m) ==
    [level |-> "info", text |-> "Generating worksheet", attempt |-> k, of |-> m]

\* status_text.info("Cleaning and parsing response...")
CleaningStatus ==
    [level |-> "info", text |-> "Cleaning and parsing response", attempt |-> 0, of |-> 0]

\* status_text.error(f"JSON Parsing Error on Attempt {attempt + 1}") and
\* status_text.error(f"Unexpected Error on Attempt {attempt + 1}")
ErrorStatus(type, k) ==
    [level |-> "error",
     text |-> IF type = "ValueError" THEN "JSON Parsing Error" ELSE "Unexpected Error",
     attempt |-> k, of |-> 0]

\* status_text.success("Worksheet generated successfully!")
SuccessStatus ==
    [level |-> "success", text |-> "Worksheet generated successfully", attempt |-> 0, of |-> 0]

Min(a, b) == IF a < b THEN a ELSE b

\* the entry of response(): the locals before the loop
Entered(m) ==
    /\ max_retries = m
    /\ attempt = 0
    /\ pc = "loop"
    /\ raw_content = Unbound
    /\ caught = NoError
    /\ outcome = "running"
    /\ worksheet = <<>>
    /\ reply = NoReply
    /\ status_text = <<>>
    /\ progress_bar = <<0>>

AppIdle ==
    /\ app = "idle"
    /\ request = NoRequest
    /\ created = NotCreated
    /\ db = <<>>
    /\ rendered = NothingRendered

\* no concurrent requests
NoConcurrentRequests ==
    /\ frames = <<>>
    /\ inputs = <<>>

\* response(prompt_text, m) called on its own
Init ==
    /\ \E m \in 0..MaxRetries : Entered(m)
    /\ calls = 0
    /\ AppIdle
    /\ NoConcurrentRequests

(***************************************************************************)
(* response(): the retry orchestrator                                      *)
(***************************************************************************)

\* a loop that runs one iteration more than range(max_retries)
LoopContinuesInclusive == attempt <= max_retries

\* for attempt in range(max_retries)
LoopContinues == attempt < max_retries

\* the attempt number that the status lines and the progress bar use
AttemptNumberZeroBased == attempt

\* attempt + 1
AttemptNumber == attempt + 1

\* the loop takes its next attempt: the status line, then the model call
NextAttempt ==
    /\ pc = "loop"
    /\ LoopContinues
    /\ pc' = "call"
    /\ status_text' = Append(status_text, GeneratingStatus(AttemptNumber, max_retries))
    /\ progress_bar' = Append(progress_bar, Min(AttemptNumber * 25, 75))
    /\ UNCHANGED <<max_retries, attempt, raw_content, caught, outcome, worksheet,
                   calls, reply>>
    /\ UNCHANGED application
    /\ UNCHANGED concurrent

\* the loop is over: return None
Exhausted ==
    /\ pc = "loop"
    /\ ~LoopContinues
    /\ pc' = "done"
    /\ outcome' = "None"
    /\ UNCHANGED <<max_retries, attempt, raw_content, caught, worksheet, calls, reply>>
    /\ UNCHANGED <<status_text, progress_bar>>
    /\ UNCHANGED application
    /\ UNCHANGED concurrent

\* an except clause has handled the failure: on to the next iteration
Handled(type, origin) ==
    /\ caught' = [type |-> type, origin |-> origin]
    /\ status_text' = Append(status_text, ErrorStatus(type, AttemptNumber))
    /\ attempt' = attempt + 1
    /\ pc' = "loop"
    /\ UNCHANGED <<outcome, worksheet, progress_bar>>

\* the handler of (json.JSONDecodeError, ValueError) writes its status
\* line and then logs raw_content: when the local was never assigned,
\* reading it raises UnboundLocalError, which leaves response()
HandledValueError(origin) ==
    IF raw_content.bound
    THEN Handled("ValueError", origin)
    ELSE /\ caught' = [type |-> "UnboundLocalError", origin |-> "handler"]
         /\ status_text' = Append(status_text, ErrorStatus("ValueError", AttemptNumber))
         /\ pc' = "done"
         /\ outcome' = "exception"
         /\ UNCHANGED <<attempt, worksheet, progress_bar>>

\* the model call returns a reply: raw_content is assigned
ModelCallReturns ==
    /\ pc = "call"
    /\ \E shape \in ModelShapes :
          /\ reply' = shape
          /\ raw_content' = Bound(ReplyText(shape))
    /\ calls' = calls + 1
    /\ status_text' = Append(status_text, CleaningStatus)
    /\ progress_bar' = Append(progress_bar, Min(AttemptNumber * 40, 90))
    /\ pc' = "clean"
    /\ UNCHANGED <<max_retries, attempt, caught, outcome, worksheet>>
    /\ UNCHANGED application
    /\ UNCHANGED concurrent

\* the model call raises.  The calls of the Streamlit widgets and of the
\* logger inside the try block are taken not to raise, and message.content
\* is taken to be a str
ModelCallRaises ==
    /\ pc = "call"
    /\ calls' = calls + 1
    /\ \E e \in ModelErrors :
          IF e = "ValueError"
          THEN HandledValueError("model call")
          ELSE Handled("Exception", "model call")
    /\ UNCHANGED <<max_retries, raw_content, reply>>
    /\ UNCHANGED application
    /\ UNCHANGED concurrent

\* clean_json_content(raw_content), json.loads(cleaned_content) and
\* worksheet_data["worksheet"]: the record is returned, or the failure is
\* handled by the except clause of its type
ParseReply ==
    /\ pc = "clean"
    /\ \E cleaned_content \in {clean_json_content(raw_content.text)} :
          IF cleaned_content.raised
          THEN HandledValueError("clean_json_content")
          ELSE \E worksheet_data \in {JsonLoads(cleaned_content.text)} :
                  IF ~worksheet_data.ok
                  THEN HandledValueError("json.loads")
                  ELSE IF ~(/\ worksheet_data.v.t = "obj"
                            /\ HasKey(worksheet_data.v, WorksheetKey))
                  THEN /\ caught' = [type |-> "Exception", origin |-> "worksheet_data"]
                       /\ status_text' = status_text \o
                             <<SuccessStatus, ErrorStatus("Exception", AttemptNumber)>>
                       /\ progress_bar' = Append(progress_bar, 100)
                       /\ attempt' = attempt + 1
                       /\ pc' = "loop"
                       /\ UNCHANGED <<outcome, worksheet>>
                  ELSE /\ worksheet' = Items(Lookup(worksheet_data.v, WorksheetKey))
                       /\ status_text' = Append(status_text, SuccessStatus)
                       /\ progress_bar' = Append(progress_bar, 100)
                       /\ outcome' = "record"
                       /\ pc' = "done"
                       /\ UNCHANGED <<attempt, caught>>
    /\ UNCHANGED <<max_retries, raw_content, calls, reply>>
    /\ UNCHANGED application
    /\ UNCHANGED concurrent

Next ==
    \/ NextAttempt
    \/ Exhausted
    \/ ModelCallReturns
    \/ ModelCallRaises
    \/ ParseReply

Spec == Init /\ [][Next]_vars

(***************************************************************************)
(* Properties of response()                                                *)
(***************************************************************************)

\* the record the normalizer and the parse yield from a raw reply
RecordOf(text) ==
    Items(Lookup(JsonLoads(clean_json_content(text).text).v, WorksheetKey))

\* C1: a run of response() issues at most max_retries model calls, and once
\* the reply of an attempt normalises to a valid record, response() returns
\* that record and issues no further model call
C1_AtMostMaxRetriesCalls ==
    /\ [](/\ calls <= max_retries
          /\ outcome = "record" =>
                /\ pc = "done"
                /\ ~clean_json_content(raw_content.text).raised
                /\ worksheet = RecordOf(raw_content.text))
    /\ [][outcome = "record" => calls' = calls]_vars

\* response() has returned the record of its second attempt, with a third
\* attempt left
C1_Witness ==
    /\ outcome = "record"
    /\ max_retries = 3
    /\ attempt = 1
    /\ calls = 2

\* C2: when every attempt fails, by the model call or by the extraction,
\* response() makes exactly max_retries model calls and then returns None,
\* each failed attempt taking exactly one attempt
C2_ExhaustedAfterMaxRetries ==
    /\ pc = "loop" => calls = attempt
    /\ (pc = "done" /\ outcome # "record") =>
          (outcome = "None" /\ calls = max_retries)

\* C3: no failure inside an attempt leaves response() as an exception,
\* whichever the attempt and whichever the error of the model call or of
\* the normalizer
C3_NoFailureEscapes == outcome # "exception"

\* the status lines of the attempts: all but "Cleaning and parsing response"
AttemptEvents == SelectSeq(status_text, LAMBDA s : s # CleaningStatus)

\* C14: the status lines are a sequence of attempt events.  The line of
\* attempt k of max_retries is written before the k-th model call; the
\* attempts are named 1, 2, ... in order, without gap or repeat; a failed
\* attempt writes an error line naming its number before the line of the
\* next attempt; the success line is written only by the attempt whose
\* record is returned
C14_AttemptEventSequence ==
    LET holds(events) ==
            /\ \A i \in 1..Len(events) :
                  IF i % 2 = 1
                  THEN events[i] = GeneratingStatus((i + 1) \div 2, max_retries)
                  ELSE \/ /\ events[i].level = "error"
                          /\ events[i].attempt = i \div 2
                       \/ /\ events[i] = SuccessStatus
                          /\ i = Len(events)
                          /\ outcome = "record"
                          /\ calls = i \div 2
            /\ pc = "call" => Len(events) = 2 * (calls + 1) - 1
            /\ pc = "clean" => Len(events) = 2 * calls - 1
            /\ pc \in {"loop", "done"} => Len(events) = 2 * calls
            /\ outcome = "record" => events[Len(events)] = SuccessStatus
    IN  holds(AttemptEvents)

\* the first attempt has failed at the cleaning stage and the second has
\* given the record
C14_Witness ==
    /\ status_text = << GeneratingStatus(1, 2), CleaningStatus, ErrorStatus("ValueError", 1),
                        GeneratingStatus(2, 2), CleaningStatus, SuccessStatus >>
    /\ outcome = "record"
    /\ calls = 2

\* C17: the values written to the progress bar within one call of
\* response() never decrease, never exceed 100, and 100 is written only on
\* success
C17_ProgressNonDecreasing ==
    /\ \A i \in 1..(Len(progress_bar) - 1) : progress_bar[i] <= progress_bar[i + 1]
    /\ \A i \in 1..Len(progress_bar) : progress_bar[i] <= 100
    /\ (\E i \in 1..Len(progress_bar) : progress_bar[i] = 100) => outcome = "record"

(***************************************************************************)
(* The normalizer on its own: one attempt of response() whose model call   *)
(* has returned, for every reply of RawShapes                              *)
(***************************************************************************)

\* the places of an array where an item is replaced: the first and the last
ReplacedPlaces == {1, WorksheetLen}

ArrayLengths == {WorksheetLen - 1, WorksheetLen, WorksheetLen + 1}

Trailings == {"none", "array", "object"}

Wrappers == {"none", "fence", "prose", "boxed"}

RawShapes ==
    { Shape(n, k, item, trailing, wrapper) :
         n \in ArrayLengths, k \in ReplacedPlaces, item \in GoodItems \cup BadItems,
         trailing \in Trailings, wrapper \in Wrappers }
    \cup {ProseShape}

InitNormalizer ==
    /\ max_retries = 1
    /\ attempt = 0
    /\ calls = 1
    /\ pc = "clean"
    /\ \E shape \in RawShapes :
          /\ reply = shape
          /\ raw_content = Bound(ReplyText(shape))
    /\ status_text = <<GeneratingStatus(1, 1), CleaningStatus>>
    /\ progress_bar = <<0, 25, 40>>
    /\ caught = NoError
    /\ outcome = "running"
    /\ worksheet = <<>>
    /\ AppIdle
    /\ NoConcurrentRequests

NextNormalizer ==
    \/ ParseReply
    \/ Exhausted

SpecNormalizer == InitNormalizer /\ [][NextNormalizer]_vars

\* the attempt on the reply is over
Normalized == pc # "clean"

\* the same reply without what is wrapped around its object
Unwrapped(shape) == [shape EXCEPT !.wrapper = "none"]

\* C4: a reply whose worksheet array has not 9 elements, or holds an
\* element that is not a string or a blank string, makes the normalizer
\* fail and never yields a record; every record returned has exactly 9
\* elements, each a string that is not blank
C4_OnlyNineNonBlankStrings ==
    /\ (pc = "clean" /\ ~WellShaped(reply)) =>
          clean_json_content(raw_content.text).raised
    /\ (Normalized /\ ~WellShaped(reply)) =>
          (outcome # "record" /\ caught = [type |-> "ValueError", origin |-> "clean_json_content"])
    /\ outcome = "record" =>
          /\ WellShaped(reply)
          /\ Len(worksheet) = WorksheetLen
          /\ \A k \in 1..Len(worksheet) : NonBlank(worksheet[k])

\* an array of 9 strings whose last one is blank has been rejected
C4_Witness ==
    /\ Normalized
    /\ reply = Shape(WorksheetLen, WorksheetLen, StrItem(<<" ">>), "none", "none")
    /\ outcome = "None"
    /\ caught.origin = "clean_json_content"

\* C5: a raw reply that is exactly a well-formed JSON object with a
\* worksheet array of 9 non-empty strings, whatever the strings hold, is
\* normalised and parsed to that array, element for element
C5_RoundTrip ==
    (Normalized /\ reply.wrapper = "none" /\ reply.trailing = "none" /\ WellShaped(reply)) =>
        (outcome = "record" /\ worksheet = Worksheet(reply))

\* C6: a worksheet object wrapped in Markdown code fences normalises to the
\* same record as the object without the fences
C6_FenceInvariance ==
    reply.wrapper = "fence" =>
        /\ pc = "clean" =>
              clean_json_content(raw_content.text)
                 = clean_json_content(ReplyText(Unwrapped(reply)))
        /\ outcome = "record" =>
              /\ ~clean_json_content(ReplyText(Unwrapped(reply))).raised
              /\ worksheet = RecordOf(ReplyText(Unwrapped(reply)))
        /\ (Normalized /\ outcome # "record") =>
              clean_json_content(ReplyText(Unwrapped(reply))).raised

\* a fenced valid object has given its record
C6_Witness ==
    /\ reply = Shape(WorksheetLen, 1, StrItem(<<"T", "x">>), "none", "fence")
    /\ outcome = "record"
    /\ worksheet = Worksheet(reply)

\* C7: a fenced reply whose array of 9 valid items has a trailing comma
\* after the last item gives the same 9 items
C7_TrailingCommaInArray ==
    (Normalized /\ reply.wrapper = "fence" /\ reply.trailing = "array" /\ WellShaped(reply)) =>
        (outcome = "record" /\ worksheet = Worksheet(reply))

\* C8 as stated: the normalizer never raises, its failure is a returned value
C8_NeverRaises ==
    /\ pc = "clean" => ~clean_json_content(raw_content.text).raised
    /\ caught.origin # "clean_json_content"

\* C8: clean_json_content completes on every input, by returning a
\* validated text or by raising ValueError; response() catches that
\* ValueError and goes on to the next iteration, so that the failure never
\* leaves response()
C8_ReturnsOrRaisesValueError ==
    /\ pc = "clean" =>
          LET cleaned_content == clean_json_content(raw_content.text)
          IN  \/ cleaned_content.raised /\ cleaned_content.text = <<>>
              \/ /\ ~cleaned_content.raised
                 /\ JsonLoads(cleaned_content.text).ok
                 /\ ValidWorksheet(JsonLoads(cleaned_content.text).v)
    /\ Normalized =>
          \/ outcome = "record" /\ caught = NoError
          \/ /\ outcome \in {"running", "None"}
             /\ caught = [type |-> "ValueError", origin |-> "clean_json_content"]
             /\ attempt = 1

\* a reply without an object has made clean_json_content raise, and
\* response() has returned None
C8_Witness ==
    /\ reply = ProseShape
    /\ caught = [type |-> "ValueError", origin |-> "clean_json_content"]
    /\ outcome = "None"
    /\ pc = "done"

\* what the normalizer gives when the candidates of the three strategies
\* are taken in the order first, second, third
FirstValidated(first, second, third) ==
    IF first.found THEN [raised |-> FALSE, text |-> first.text]
    ELSE IF second.found THEN [raised |-> FALSE, text |-> second.text]
    ELSE IF third.found THEN [raised |-> FALSE, text |-> third.text]
    ELSE [raised |-> TRUE, text |-> <<>>]

\* C12: the strategies are tried in the order targeted extraction, greedy
\* bracket span, literal slice; a strategy whose candidate does not parse
\* or validate is passed over and the next one is tried; the result is the
\* candidate of the first strategy, in that order, that parses and validates
C12_FirstValidStrategyWins ==
    LET expected(x) ==
            FirstValidated(TryStrategy(Strategy1(x)),
                           TryStrategy(Strategy2(x)),
                           TryStrategy(Strategy3(x)))
        holds(result) ==
            /\ pc = "clean" => clean_json_content(raw_content.text) = result
            /\ Normalized =>
                  IF result.raised
                  THEN /\ outcome # "record"
                       /\ caught = [type |-> "ValueError", origin |-> "clean_json_content"]
                  ELSE /\ outcome = "record"
                       /\ worksheet = Items(Lookup(JsonLoads(result.text).v, WorksheetKey))
    IN  holds(expected(raw_content.text))

\* the candidate of the targeted extraction ends inside a string and does
\* not parse; the greedy span has given the record
C12_Witness ==
    /\ reply = Shape(WorksheetLen, 1, StrItem(<<"a", "]", "b", "}", "c">>), "none", "prose")
    /\ Strategy1(raw_content.text).found
    /\ ~TryStrategy(Strategy1(raw_content.text)).found
    /\ TryStrategy(Strategy2(raw_content.text)).found
    /\ outcome = "record"
    /\ worksheet = Worksheet(reply)

\* C13: a valid worksheet object wrapped in LaTeX boxing markup, a
\* backslash command followed by a brace group around the object, is
\* normalised to the record of the object without the markup
C13_BoxedReplyUnwrapped ==
    (reply.wrapper = "boxed" /\ WellShaped(reply) /\ reply.trailing = "none") =>
        /\ pc = "clean" =>
              /\ ~clean_json_content(raw_content.text).raised
              /\ RecordOf(raw_content.text) = RecordOf(ReplyText(Unwrapped(reply)))
        /\ Normalized => outcome = "record"

(***************************************************************************)
(* The application: create_worksheet, edit_worksheet, the library page and *)
(* save_worksheet_changes over the worksheets table.  Each function of the *)
(* source is an operation that can be invoked between two others.          *)
(***************************************************************************)

\* the bound on the number of rows of the worksheets table
MaxRows == 2

Subjects == {"Mathematics"}

Topics == {"Fractions"}

\* the topic column: the topic typed, or f"Edited Version of {worksheet_id}"
TypedTopic(text) == [text |-> text, of |-> 0]

EditedTopic(worksheet_id) == [text |-> "Edited Version of", of |-> worksheet_id]

\* what the user types into the text areas of the edit form: nothing, a
\* new title, or a last item wiped to a blank
NoEdit == [place |-> 0, text |-> <<>>]

Edits ==
    { NoEdit,
      [place |-> 1, text |-> <<"T", "x">>],
      [place |-> WorksheetLen, text |-> <<" ">>] }

\* edited_worksheet: the values of the text areas, one per item of content
EditedWorksheet(content, edit) ==
    [i \in 1..Len(content) |-> IF i = edit.place THEN edit.text ELSE content[i]]

\* INSERT INTO worksheets under a uuid.uuid4() identifier, which no row has
\* yet: rows are identified by their place in the order of insertion;
\* worksheet_content is stored as json.dumps text
Inserted(subject, topic, content) ==
    Append(db, [subject |-> subject, topic |-> topic,
                worksheet_content |-> JsonDumps(content)])

\* get_worksheet_by_id: the row, its content read back with json.loads
get_worksheet_by_id(worksheet_id) ==
    [subject |-> db[worksheet_id].subject,
     topic |-> db[worksheet_id].topic,
     worksheet_content |-> Items(JsonLoads(db[worksheet_id].worksheet_content).v)]

\* the frame of response() is entered with max_retries = m
EnterResponse(m) ==
    /\ max_retries' = m
    /\ attempt' = 0
    /\ pc' = "loop"
    /\ raw_content' = Unbound
    /\ caught' = NoError
    /\ outcome' = "running"
    /\ worksheet' = <<>>
    /\ reply' = NoReply
    /\ status_text' = <<>>
    /\ progress_bar' = <<0>>
    /\ calls' = 0

\* the frame of response() is gone
LeaveResponse ==
    /\ pc' = "idle"
    /\ attempt' = 0
    /\ raw_content' = Unbound
    /\ caught' = NoError
    /\ outcome' = "running"
    /\ worksheet' = <<>>
    /\ reply' = NoReply
    /\ status_text' = <<>>
    /\ progress_bar' = <<>>
    /\ UNCHANGED <<max_retries, calls>>

\* main(): "Create Worksheet" pressed with a topic; create_worksheet calls
\* response(prompt(subject_selection, topic))
CreateWorksheet ==
    /\ app = "idle"
    /\ Len(db) < MaxRows
    /\ \E subject \in Subjects, topic \in Topics :
          request' = [subject |-> subject, topic |-> topic, rows |-> Len(db)]
    /\ app' = "generating"
    /\ created' = NotCreated
    /\ rendered' = NothingRendered
    /\ EnterResponse(DefaultMaxRetries)
    /\ UNCHANGED db
    /\ UNCHANGED concurrent

\* generation run again after a failure of save_worksheet or of word()
RetryGeneration(status) ==
    /\ app' = "generating"
    /\ EnterResponse(DefaultMaxRetries)
    /\ UNCHANGED created

\* a failure of save_worksheet or of word() ends create_worksheet: an
\* sqlite3.Error leaves it as an exception, a failed word() makes it
\* return (None, None)
CollaboratorFailed(status) ==
    /\ created' = [status |-> status, id |-> 0]
    /\ app' = "idle"
    /\ LeaveResponse

\* create_worksheet: response() returned a list; save_worksheet stores it,
\* or sqlite3 raises and no row is written
SaveWorksheet ==
    /\ app = "generating"
    /\ pc = "done"
    /\ outcome = "record"
    /\ worksheet # <<>>
    /\ \E stored \in BOOLEAN :
          IF stored
          THEN /\ db' = Inserted(request.subject, TypedTopic(request.topic), worksheet)
               /\ app' = "rendering"
               /\ UNCHANGED created
               /\ UNCHANGED orchestrator
          ELSE /\ CollaboratorFailed("sqlite3.Error")
               /\ UNCHANGED db
    /\ UNCHANGED <<request, rendered>>
    /\ UNCHANGED concurrent

\* create_worksheet: word(worksheet, subject_selection) gives the document,
\* or None when python-docx fails; then (doc_download, worksheet_id) or
\* (None, None) is returned
RenderWorksheet ==
    /\ app = "rendering"
    /\ rendered' = {worksheet}
    /\ \E doc_download \in BOOLEAN :
          IF doc_download
          THEN /\ created' = [status |-> "created", id |-> Len(db)]
               /\ app' = "idle"
               /\ LeaveResponse
          ELSE CollaboratorFailed("failed")
    /\ UNCHANGED <<request, db>>
    /\ UNCHANGED concurrent

\* create_worksheet: response() returned None, so (None, None) is returned;
\* or response() raised, and the exception leaves create_worksheet
GenerationFailed ==
    /\ app = "generating"
    /\ pc = "done"
    /\ outcome # "record"
    /\ created' = [status |-> IF outcome = "exception" THEN "exception" ELSE "failed",
                   id |-> 0]
    /\ app' = "idle"
    /\ LeaveResponse
    /\ UNCHANGED <<request, db, rendered>>
    /\ UNCHANGED concurrent

\* edit_worksheet(worksheet_id, subject, worksheet_content) with "Save
\* Changes" pressed: the text areas are stored as a new row, then rendered
EditWorksheet ==
    /\ app = "idle"
    /\ Len(db) < MaxRows
    /\ \E worksheet_id \in 1..Len(db), edit \in Edits :
          \E full_worksheet \in {get_worksheet_by_id(worksheet_id)} :
             \E edited_worksheet \in
                   {ListOf(EditedWorksheet(full_worksheet.worksheet_content, edit))} :
                /\ db' = Inserted(full_worksheet.subject, EditedTopic(worksheet_id),
                                  edited_worksheet)
                /\ rendered' = {edited_worksheet}
    /\ created' = NotCreated
    /\ UNCHANGED <<app, request>>
    /\ UNCHANGED orchestrator
    /\ UNCHANGED concurrent

\* save_worksheet_changes(worksheet_id, subject, edited_worksheet): UPDATE
\* worksheets SET worksheet_content = ? WHERE id = ?, then word()
SaveWorksheetChanges ==
    /\ app = "idle"
    /\ \E worksheet_id \in 1..Len(db), edit \in Edits :
          \E full_worksheet \in {get_worksheet_by_id(worksheet_id)} :
             \E edited_worksheet \in
                   {ListOf(EditedWorksheet(full_worksheet.worksheet_content, edit))} :
                /\ db' = [db EXCEPT ![worksheet_id].worksheet_content =
                                       JsonDumps(edited_worksheet)]
                /\ rendered' = {edited_worksheet}
    /\ created' = NotCreated
    /\ UNCHANGED <<app, request>>
    /\ UNCHANGED orchestrator
    /\ UNCHANGED concurrent

\* worksheet_library_page: every row listed is read back and rendered
WorksheetLibraryPage ==
    /\ app = "idle"
    /\ \E filter_subject \in Subjects \cup {"All Subjects"} :
          rendered' =
             { get_worksheet_by_id(worksheet_id).worksheet_content :
                  worksheet_id \in
                     { i \in 1..Len(db) :
                          filter_subject = "All Subjects" \/ db[i].subject = filter_subject } }
    /\ created' = NotCreated
    /\ UNCHANGED <<app, request, db>>
    /\ UNCHANGED orchestrator
    /\ UNCHANGED concurrent

InitApp ==
    /\ max_retries = DefaultMaxRetries
    /\ attempt = 0
    /\ pc = "idle"
    /\ raw_content = Unbound
    /\ caught = NoError
    /\ outcome = "running"
    /\ worksheet = <<>>
    /\ reply = NoReply
    /\ status_text = <<>>
    /\ progress_bar = <<>>
    /\ calls = 0
    /\ AppIdle
    /\ NoConcurrentRequests

NextApp ==
    \/ CreateWorksheet
    \/ NextAttempt
    \/ Exhausted
    \/ ModelCallReturns
    \/ ModelCallRaises
    \/ ParseReply
    \/ SaveWorksheet
    \/ RenderWorksheet
    \/ GenerationFailed
    \/ EditWorksheet
    \/ SaveWorksheetChanges
    \/ WorksheetLibraryPage

SpecApp == InitApp /\ [][NextApp]_vars

(***************************************************************************)
(* Properties of the stored worksheets                                     *)
(***************************************************************************)

\* a content of exactly 9 strings, none blank
ValidContent(content) ==
    /\ Len(content) = WorksheetLen
    /\ \A k \in 1..Len(content) : NonBlank(content[k])

\* C9: a stored worksheet is immutable: no save, edit-and-save or
\* save_worksheet_changes alters the subject, topic or content of a row
\* stored before, and saving an edit adds a row under a fresh identifier
C9_StoredWorksheetImmutable ==
    [][/\ Len(db') >= Len(db)
       /\ \A worksheet_id \in 1..Len(db) : db'[worksheet_id] = db[worksheet_id]]_vars

\* C10: every content that create_worksheet or the saving of an edit
\* writes to the store or hands to the renderer is a sequence of exactly 9
\* strings, none blank
C10_OnlyValidContentDownstream ==
    [][/\ Len(db') > Len(db) =>
             ValidContent(Items(JsonLoads(db'[Len(db')].worksheet_content).v))
       /\ (Len(db') > Len(db) \/ app = "rendering") =>
             \A content \in rendered' : ValidContent(content)]_vars

\* create_worksheet holds the record that response() returned
RecordHeld == app \in {"generating", "rendering"} /\ outcome = "record"

\* C15: once response() has returned a record within create_worksheet, no
\* step makes a further model call or enters response() again; when
\* save_worksheet or word() fails, create_worksheet ends and its caller is
\* given the failure: the exception of sqlite3, or (None, None)
C15_NoRetryOnCollaboratorFailure ==
    [][RecordHeld =>
          /\ calls' = calls
          /\ pc' \in {"done", "idle"}
          /\ app' \in {"rendering", "idle"}
          /\ (app = "generating" /\ app' = "idle") =>
                (created' = [status |-> "sqlite3.Error", id |-> 0] /\ db' = db)
          /\ (app = "rendering" /\ app' = "idle") =>
                \/ created' = [status |-> "created", id |-> Len(db)]
                \/ created' = [status |-> "failed", id |-> 0]]_vars

\* a second request whose record could not be stored has ended with the
\* exception of sqlite3, after a first one whose record was stored
C15_Witness ==
    /\ created.status = "sqlite3.Error"
    /\ app = "idle"
    /\ Len(db) = 1
    /\ request.rows = 1

\* C16: when create_worksheet returns (None, None), no row has been added
\* to the table for that request
C16_NoRowOnReportedFailure ==
    [][(created'.status = "failed" /\ created.status # "failed") =>
          Len(db') = request.rows]_vars

(***************************************************************************)
(* Concurrent requests: two calls of response(), each in its own script    *)
(* run, their steps interleaved in every order.  prompt(), response() and  *)
(* clean_json_content keep what they compute in locals; client and logger  *)
(* are the only module-level names they touch, and neither is assigned.    *)
(***************************************************************************)

\* the bound on max_retries of each concurrent request
MaxConcurrentRetries == 2

Requests == {1, 2}

\* the replies the model gives to a concurrent request
ConcurrentShapes ==
    << Shape(WorksheetLen, 0, StrItem(<<>>), "none", "none"), ProseShape >>

\* what the model answers to one call: a reply, or an error raised
ReplyInput(n) == [reply |-> n, error |-> ""]

ErrorInput(e) == [reply |-> 0, error |-> e]

\* the locals of response() at its entry
NewFrame(m) ==
    [max_retries |-> m, attempt |-> 0, pc |-> "loop", raw_content |-> Unbound,
     caught |-> NoError, outcome |-> "running", worksheet |-> <<>>]

\* locals kept in one module-level frame, shared by all requests
ModuleFrame(r) == 1

\* the frame that holds the locals of request r: its own
FrameOf(r) == r

Local(r) == frames[FrameOf(r)]

Assign(r, frame) == frames' = [frames EXCEPT ![FrameOf(r)] = frame]

Answered(r, input) == inputs' = [inputs EXCEPT ![r] = Append(@, input)]

InitConcurrent ==
    /\ max_retries = DefaultMaxRetries
    /\ attempt = 0
    /\ pc = "idle"
    /\ raw_content = Unbound
    /\ caught = NoError
    /\ outcome = "running"
    /\ worksheet = <<>>
    /\ reply = NoReply
    /\ status_text = <<>>
    /\ progress_bar = <<>>
    /\ calls = 0
    /\ AppIdle
    /\ \E m1 \in 1..MaxConcurrentRetries, m2 \in 1..MaxConcurrentRetries :
          frames = <<NewFrame(m1), NewFrame(m2)>>
    /\ inputs = [r \in Requests |-> <<>>]

\* an except clause has handled the failure
FrameHandled(frame, type, origin) ==
    [frame EXCEPT !.caught = [type |-> type, origin |-> origin],
                  !.attempt = @ + 1,
                  !.pc = "loop"]

\* the handler of (json.JSONDecodeError, ValueError) reads raw_content
FrameHandledValueError(frame, origin) ==
    IF frame.raw_content.bound
    THEN FrameHandled(frame, "ValueError", origin)
    ELSE [frame EXCEPT !.caught = [type |-> "UnboundLocalError", origin |-> "handler"],
                       !.pc = "done",
                       !.outcome = "exception"]

\* request r: for attempt in range(max_retries), the next attempt
RequestNextAttempt(r) ==
    /\ Local(r).pc = "loop"
    /\ Local(r).attempt < Local(r).max_retries
    /\ Assign(r, [Local(r) EXCEPT !.pc = "call"])
    /\ UNCHANGED inputs
    /\ UNCHANGED <<orchestrator, application>>

\* request r: the loop is over, return None
RequestExhausted(r) ==
    /\ Local(r).pc = "loop"
    /\ ~(Local(r).attempt < Local(r).max_retries)
    /\ Assign(r, [Local(r) EXCEPT !.pc = "done", !.outcome = "None"])
    /\ UNCHANGED inputs
    /\ UNCHANGED <<orchestrator, application>>

\* request r: the model call returns a reply
RequestModelCallReturns(r) ==
    /\ Local(r).pc = "call"
    /\ \E n \in 1..Len(ConcurrentShapes) :
          /\ Assign(r, [Local(r) EXCEPT
                           !.raw_content = Bound(ReplyText(ConcurrentShapes[n])),
                           !.pc = "clean"])
          /\ Answered(r, ReplyInput(n))
    /\ UNCHANGED <<orchestrator, application>>

\* request r: the model call raises
RequestModelCallRaises(r) ==
    /\ Local(r).pc = "call"
    /\ \E e \in ModelErrors :
          /\ Assign(r, IF e = "ValueError"
                       THEN FrameHandledValueError(Local(r), "model call")
                       ELSE FrameHandled(Local(r), "Exception", "model call"))
          /\ Answered(r, ErrorInput(e))
    /\ UNCHANGED <<orchestrator, application>>

\* request r: clean_json_content, json.loads and the return of the record
RequestParseReply(r) ==
    /\ Local(r).pc = "clean"
    /\ \E cleaned_content \in {clean_json_content(Local(r).raw_content.text)} :
          IF cleaned_content.raised
          THEN Assign(r, FrameHandledValueError(Local(r), "clean_json_content"))
          ELSE \E worksheet_data \in {JsonLoads(cleaned_content.text)} :
                  Assign(r,
                     IF ~worksheet_data.ok
                     THEN FrameHandledValueError(Local(r), "json.loads")
                     ELSE IF ~(/\ worksheet_data.v.t = "obj"
                               /\ HasKey(worksheet_data.v, WorksheetKey))
                     THEN FrameHandled(Local(r), "Exception", "worksheet_data")
                     ELSE [Local(r) EXCEPT
                              !.worksheet = Items(Lookup(worksheet_data.v, WorksheetKey)),
                              !.outcome = "record",
                              !.pc = "done"])
    /\ UNCHANGED inputs
    /\ UNCHANGED <<orchestrator, application>>

NextConcurrent ==
    \E r \in Requests :
       \/ RequestNextAttempt(r)
       \/ RequestExhausted(r)
       \/ RequestModelCallReturns(r)
       \/ RequestModelCallRaises(r)
       \/ RequestParseReply(r)

SpecConcurrent == InitConcurrent /\ [][NextConcurrent]_vars

\* whether reply n normalises to a record
Normalises ==
    [n \in 1..Len(ConcurrentShapes) |->
        ~clean_json_content(ReplyText(ConcurrentShapes[n])).raised]

\* response(prompt_text, m) run on its own against the answers h, from its
\* attempt i on: its outcome and the number of model calls it has made
RECURSIVE AloneFrom(_, _, _, _)
AloneFrom(m, h, i, bound) ==
    IF i > m THEN [outcome |-> "None", calls |-> m]
    ELSE IF i > Len(h) THEN [outcome |-> "running", calls |-> Len(h)]
    ELSE IF h[i].reply > 0
    THEN (IF Normalises[h[i].reply] THEN [outcome |-> "record", calls |-> i]
          ELSE AloneFrom(m, h, i + 1, TRUE))
    ELSE IF h[i].error = "ValueError" /\ ~bound
    THEN [outcome |-> "exception", calls |-> i]
    ELSE AloneFrom(m, h, i + 1, bound)

Alone(m, h) == AloneFrom(m, h, 1, FALSE)

\* C11: concurrent requests do not interfere: under every interleaving, the
\* outcome of each request and the number of its model calls are those of
\* the same request run alone against the same answers of the model
C11_NoInterference ==
    \A r \in Requests :
       /\ Len(inputs[r]) = Alone(frames[r].max_retries, inputs[r]).calls
       /\ IF frames[r].pc = "done"
          THEN frames[r].outcome = Alone(frames[r].max_retries, inputs[r]).outcome
          ELSE frames[r].outcome = "running"
       /\ frames[r].outcome = "record" =>
             frames[r].worksheet = Worksheet(ConcurrentShapes[1])

\* request 1 has returned the record of its second attempt while request 2
\* was left by an exception at its first
C11_Witness ==
    /\ frames[1].outcome = "record"
    /\ Len(inputs[1]) = 2
    /\ frames[2].outcome = "exception"
    /\ Len(inputs[2]) = 1

====
